---- MODULE Spec2Model ----
(***************************************************************************)
(* Model of sample_lambda/lambda.py: the Alexa smart-home Lambda that      *)
(* accepts v2 and v3 directives, detects the payload version, routes the   *)
(* directive, drives the AC remote and builds the response.                *)
(*                                                                         *)
(* A request is a JSON object.  It is modelled as a flat record with one   *)
(* field per path the code reads; a field holds Absent when any key on its *)
(* path is missing, which is exactly when the Python lookup raises:        *)
(*   dPv    request["directive"]["header"]["payloadVersion"]               *)
(*   dNs    request["directive"]["header"]["namespace"]                    *)
(*   dName  request["directive"]["header"]["name"]                         *)
(*   dTok   request["directive"]["header"]["correlationToken"]             *)
(*   dEp    request["directive"]["endpoint"]["endpointId"]                 *)
(*   pKind  which of payload.targetSetpoint.value,                         *)
(*          payload.targetSetpointDelta.value,                             *)
(*          payload.thermostatMode.value, payload.grant.code is present    *)
(*   pNum   the number held by the setpoint / delta payload                *)
(*   pStr   the string held by the mode / grant payload                    *)
(*   hPv    request["header"]["payloadVersion"]                            *)
(*   hNs    request["header"]["namespace"]                                 *)
(*   hName  request["header"]["name"]                                      *)
(* Temperatures are integers (a fixed unit of a degree Celsius).           *)
(* messageId comes from get_uuid; timeOfSample (the wall clock) is left    *)
(* out of the property records.                                            *)
(***************************************************************************)
EXTENDS Integers, Sequences, FiniteSets, TLC

VARIABLES
    ac_remote,     \* the AcRemote singleton: [power, temperature, mode]
    env_monitor,   \* the reading the EnvMonitor singleton returns
    catalog,       \* SAMPLE_APPLIANCES, the module-level list
    request,       \* the request of the last lambda_handler invocation
    before,        \* ac_remote as it was when that invocation started
    version,       \* what get_directive_version returned for it
    route,         \* the handler lambda_handler called for it
    outcome,       \* "response" | "None" | "KeyError" | "UnboundLocalError"
    response,      \* the object returned (NoResponse when none was)
    calls,         \* the AcRemote set_* methods that invocation called
    projected,     \* EndpointProjector runs: appliance -> set of endpoints seen
    pc,            \* concurrent invocations: position of each
    delta,         \* concurrent invocations: targetSetpointDelta of each
    read,          \* concurrent invocations: the value get_temperature returned
    start,         \* concurrent invocations: temperature before either ran
    overlapped     \* concurrent invocations: did the two overlap in time

vars == <<ac_remote, env_monitor, catalog, request, before, version, route,
          outcome, response, calls, projected, pc, delta, read, start,
          overlapped>>

\* ---------------------------------------------------------------- bounds

MaxTemp == 3
Temps == 0..MaxTemp
Deltas == {-1, 1, 2}
Modes == {"HEAT", "COOL"}
Powers == {"ON", "OFF"}
Uuids == {"uuid-a", "uuid-b"}
Procs == {1, 2}

Absent == "<absent>"
NoResponse == [absent |-> TRUE]

\* ------------------------------------------------------ SAMPLE_APPLIANCES
\* friendlyName and friendlyDescription are Japanese text in the source;
\* they are opaque strings here.

SAMPLE_APPLIANCES ==
    << [applianceId |-> "endpoint-004",
        manufacturerName |-> "IR TEST (AC remote)",
        modelName |-> "Smart Thermostat",
        version |-> "1",
        friendlyName |-> "air conditioner",
        friendlyDescription |-> "remote control of the home air conditioner",
        isReachable |-> TRUE,
        actions |-> << "setTargetTemperature", "incrementTargetTemperature",
                       "decrementTargetTemperature", "getTargetTemperature",
                       "getTemperatureReading" >>,
        additionalApplianceDetails |-> {}] >>

\* ------------------------------------------------- AcRemote, EnvMonitor
\* ac_remote.py (class AcRemote) and the EnvMonitor class are not among the
\* sources.  The AcRemote is taken to be what the design's device facade
\* says: it holds a power state, a target temperature and a mode, each
\* setter changes its own field only and each getter returns it.

set_power_on(fac) == [fac EXCEPT !.power = "ON"]
set_power_off(fac) == [fac EXCEPT !.power = "OFF"]
get_power(fac) == fac.power
set_temperature(fac, t) == [fac EXCEPT !.temperature = t]
get_temperature(fac) == fac.temperature
set_mode_heat(fac) == [fac EXCEPT !.mode = "HEAT"]
set_mode_cool(fac) == [fac EXCEPT !.mode = "COOL"]
get_mode(fac) == fac.mode
env_get_temperature(sensor) == sensor

\* -------------------------------------------------- get_directive_version

\* Bug variant: the legacy location is looked up first.
get_directive_version_legacy_first(req) ==
    IF req.hPv # Absent THEN req.hPv
    ELSE IF req.dPv # Absent THEN req.dPv
    ELSE "-1"

get_directive_version(req) ==
    IF req.dPv # Absent THEN req.dPv
    ELSE IF req.hPv # Absent THEN req.hPv
    ELSE "-1"

\* ------------------------------------------------------ EndpointProjector

get_display_categories_from_v2_appliance(appliance) ==
    IF appliance.modelName = "Smart Thermostat" THEN << "THERMOSTAT" >>
    ELSE << "OTHER" >>

ThermostatControllerCapability ==
    [type |-> "AlexaInterface",
     interface |-> "Alexa.ThermostatController",
     version |-> "3",
     properties |-> [supported |-> << [name |-> "targetSetpoint"],
                                      [name |-> "thermostatMode"] >>,
                     proactivelyReported |-> TRUE,
                     retrievable |-> TRUE],
     configuration |-> [supportedModes |-> << "HEAT", "COOL" >>,
                        supportsScheduling |-> FALSE]]

SimpleCapability(interface, property) ==
    [type |-> "AlexaInterface",
     interface |-> interface,
     version |-> "3",
     properties |-> [supported |-> << [name |-> property] >>,
                     proactivelyReported |-> TRUE,
                     retrievable |-> TRUE]]

endpoint_health_capability ==
    SimpleCapability("Alexa.EndpointHealth", "connectivity")

alexa_interface_capability ==
    [type |-> "AlexaInterface", interface |-> "Alexa", version |-> "3"]

model_capabilities(appliance) ==
    IF appliance.modelName = "Smart Thermostat"
    THEN << ThermostatControllerCapability,
            SimpleCapability("Alexa.PowerController", "powerState"),
            SimpleCapability("Alexa.TemperatureSensor", "temperature") >>
    ELSE << SimpleCapability("Alexa.PowerController", "powerState") >>

\* Bug variant: the two required capabilities appended in the other order.
get_capabilities_base_first(appliance) ==
    Append(Append(model_capabilities(appliance), alexa_interface_capability),
           endpoint_health_capability)

get_capabilities_from_v2_appliance(appliance) ==
    Append(Append(model_capabilities(appliance), endpoint_health_capability),
           alexa_interface_capability)

get_endpoint_from_v2_appliance(appliance) ==
    [endpointId |-> appliance.applianceId,
     manufacturerName |-> appliance.manufacturerName,
     friendlyName |-> appliance.friendlyName,
     description |-> appliance.friendlyDescription,
     displayCategories |-> get_display_categories_from_v2_appliance(appliance),
     cookie |-> appliance.additionalApplianceDetails,
     capabilities |-> get_capabilities_from_v2_appliance(appliance)]

\* ------------------------------------------------------------ v2 handlers

\* What a handler did: the object it returned or the exception it raised,
\* the AcRemote it left behind and the set_* methods it called.
Result(out, resp, fac, called) ==
    [outcome |-> out, response |-> resp, fac |-> fac, calls |-> called]

handle_discovery(cat, fac, uuid) ==
    Result("response",
           [header |-> [namespace |-> "Alexa.ConnectedHome.Discovery",
                        name |-> "DiscoverAppliancesResponse",
                        payloadVersion |-> "2",
                        messageId |-> uuid],
            payload |-> [discoveredAppliances |-> cat]],
           fac, << >>)

V2Confirmation(name, uuid) ==
    [header |-> [namespace |-> "Alexa.ConnectedHome.Control",
                 name |-> name,
                 payloadVersion |-> "2",
                 messageId |-> uuid],
     payload |-> {}]

handle_non_discovery(req, fac, uuid) ==
    IF req.hName = Absent THEN Result("KeyError", NoResponse, fac, << >>)
    ELSE IF req.hName = "TurnOnRequest"
    THEN Result("response", V2Confirmation("TurnOnConfirmation", uuid), fac, << >>)
    ELSE IF req.hName = "TurnOffRequest"
    THEN Result("response", V2Confirmation("TurnOffConfirmation", uuid), fac, << >>)
    ELSE \* `header` was never bound when line 144 reads it
         Result("UnboundLocalError", NoResponse, fac, << >>)

\* ------------------------------------------------------------ v3 handlers

\* for appliance in SAMPLE_APPLIANCES: endpoints.append(...)
\* Bug variant: the endpoint list is not reset, so each appliance is in twice.
discovered_endpoints_twice(cat) ==
    [i \in 1..(2 * Len(cat)) |->
        get_endpoint_from_v2_appliance(cat[((i - 1) % Len(cat)) + 1])]

discovered_endpoints(cat) ==
    [i \in 1..Len(cat) |-> get_endpoint_from_v2_appliance(cat[i])]

handle_discovery_v3(cat, fac, uuid) ==
    Result("response",
           [event |-> [header |-> [namespace |-> "Alexa.Discovery",
                                   name |-> "Discover.Response",
                                   payloadVersion |-> "3",
                                   messageId |-> uuid],
                       payload |-> [endpoints |-> discovered_endpoints(cat)]]],
           fac, << >>)

\* One entry of context.properties.
PropertyState(namespace, name, value) ==
    [namespace |-> namespace, name |-> name, value |-> value,
     uncertaintyInMilliseconds |-> 0]

Celsius(t) == [value |-> t, scale |-> "CELSIUS"]

\* The event block of the thermostat and ReportState responses.
EndpointEvent(name, req, uuid) ==
    [header |-> [namespace |-> "Alexa",
                 name |-> name,
                 messageId |-> uuid,
                 correlationToken |-> req.dTok,
                 payloadVersion |-> "3"],
     endpoint |-> [endpointId |-> req.dEp],
     payload |-> {}]

\* Alexa.PowerController: every name but TurnOn takes the else branch.
power_controller(req, fac, uuid) ==
    LET on == req.dName = "TurnOn"
        value == IF on THEN "ON" ELSE "OFF"
        fac1 == IF on THEN set_power_on(fac) ELSE set_power_off(fac)
        called == << IF on THEN "set_power_on" ELSE "set_power_off" >>
    IN  IF req.dTok = Absent \/ req.dEp = Absent
        THEN Result("KeyError", NoResponse, fac1, called)
        ELSE Result("response",
                 [context |-> [properties |->
                      << PropertyState("Alexa.PowerController", "powerState",
                                       value) >>],
                  event |-> [header |-> [namespace |-> "Alexa",
                                         name |-> "Response",
                                         payloadVersion |-> "3",
                                         messageId |-> uuid,
                                         correlationToken |-> req.dTok],
                             endpoint |-> [scope |-> [type |-> "BearerToken",
                                              token |-> "access-token-from-Amazon"],
                                           endpointId |-> req.dEp],
                             payload |-> {}]],
                 fac1, called)

\* Line 233: ac_remote.get_temperature() + payload delta.
\* Bug variant: the delta is taken as the new target.
adjusted_target_absolute(current, d) == d

adjusted_target(current, d) == current + d

\* Bug variant: a mode that is not HEAT falls into an else branch (COOL).
set_thermostat_mode_else_cool(req, fac) ==
    IF req.pStr = "HEAT"
    THEN [raised |-> FALSE, fac |-> set_mode_heat(fac),
          calls |-> << "set_mode_heat" >>]
    ELSE [raised |-> FALSE, fac |-> set_mode_cool(fac),
          calls |-> << "set_mode_cool" >>]

\* Lines 239-242: the mode switch of SetThermostatMode.
set_thermostat_mode(req, fac) ==
    IF req.pStr = "HEAT"
    THEN [raised |-> FALSE, fac |-> set_mode_heat(fac),
          calls |-> << "set_mode_heat" >>]
    ELSE IF req.pStr = "COOL"
    THEN [raised |-> FALSE, fac |-> set_mode_cool(fac),
          calls |-> << "set_mode_cool" >>]
    ELSE [raised |-> FALSE, fac |-> fac, calls |-> << >>]

\* Lines 228-242: the mutation a thermostat directive makes, before the
\* response is built.  raised: a payload lookup raised KeyError.
thermostat_action(req, fac) ==
    IF req.dName = "SetTargetTemperature"
    THEN IF req.pKind # "targetSetpoint"
         THEN [raised |-> TRUE, fac |-> fac, calls |-> << >>]
         ELSE [raised |-> FALSE, fac |-> set_temperature(fac, req.pNum),
               calls |-> << "set_temperature" >>]
    ELSE IF req.dName = "AdjustTargetTemperature"
    THEN IF req.pKind # "targetSetpointDelta"
         THEN [raised |-> TRUE, fac |-> fac, calls |-> << >>]
         ELSE [raised |-> FALSE,
               fac |-> set_temperature(fac,
                           adjusted_target(get_temperature(fac), req.pNum)),
               calls |-> << "set_temperature" >>]
    ELSE IF req.dName = "SetThermostatMode"
    THEN IF req.pKind # "thermostatMode"
         THEN [raised |-> TRUE, fac |-> fac, calls |-> << >>]
         ELSE set_thermostat_mode(req, fac)
    ELSE [raised |-> FALSE, fac |-> fac, calls |-> << >>]

\* Lines 258-288: the snapshot reported after a thermostat directive.
thermostat_properties(fac, sensor) ==
    << PropertyState("Alexa.ThermostatController", "thermostatMode",
                     get_mode(fac)),
       PropertyState("Alexa.ThermostatController", "targetSetpoint",
                     Celsius(get_temperature(fac))),
       PropertyState("Alexa.TemperatureSensor", "temperature",
                     Celsius(env_get_temperature(sensor))) >>

\* Bug variant: the snapshot is taken before the directive is applied.
thermostat_controller_stale(req, fac, sensor, uuid) ==
    LET act == thermostat_action(req, fac)
    IN  IF act.raised \/ req.dTok = Absent \/ req.dEp = Absent
        THEN Result("KeyError", NoResponse, act.fac, act.calls)
        ELSE Result("response",
                 [event |-> EndpointEvent("Response", req, uuid),
                  context |-> [properties |->
                                   thermostat_properties(fac, sensor)]],
                 act.fac, act.calls)

thermostat_controller(req, fac, sensor, uuid) ==
    LET act == thermostat_action(req, fac)
    IN  IF act.raised \/ req.dTok = Absent \/ req.dEp = Absent
        THEN Result("KeyError", NoResponse, act.fac, act.calls)
        ELSE Result("response",
                 [event |-> EndpointEvent("Response", req, uuid),
                  context |-> [properties |->
                                   thermostat_properties(act.fac, sensor)]],
                 act.fac, act.calls)

\* Lines 308-354: the properties of a StateReport.
\* Bug variant: the report is the three-entry thermostat snapshot.
report_state_properties_short(fac, sensor) ==
    thermostat_properties(fac, sensor)

report_state_properties(fac, sensor) ==
    << PropertyState("Alexa.ThermostatController", "thermostatMode",
                     get_mode(fac)),
       PropertyState("Alexa.ThermostatController", "targetSetpoint",
                     Celsius(get_temperature(fac))),
       PropertyState("Alexa.PowerController", "powerState", get_power(fac)),
       PropertyState("Alexa.TemperatureSensor", "temperature",
                     Celsius(env_get_temperature(sensor))),
       PropertyState("Alexa.EndpointHealth", "connectivity",
                     [value |-> "OK"]) >>

report_state(req, fac, sensor, uuid) ==
    IF req.dName # "ReportState"
    THEN Result("None", NoResponse, fac, << >>)
    ELSE IF req.dTok = Absent \/ req.dEp = Absent
    THEN Result("KeyError", NoResponse, fac, << >>)
    ELSE Result("response",
             [event |-> EndpointEvent("StateReport", req, uuid),
              context |-> [properties |-> report_state_properties(fac, sensor)]],
             fac, << >>)

accept_grant(req, fac, uuid) ==
    IF req.dName # "AcceptGrant"
    THEN Result("None", NoResponse, fac, << >>)
    ELSE IF req.pKind # "grant"
    THEN Result("KeyError", NoResponse, fac, << >>)
    ELSE Result("response",
             [event |-> [header |-> [namespace |-> "Alexa.Authorization",
                                     name |-> "AcceptGrant.Response",
                                     payloadVersion |-> "3",
                                     messageId |-> uuid],
                         payload |-> {}]],
             fac, << >>)

handle_non_discovery_v3(req, fac, sensor, uuid) ==
    IF req.dNs = Absent THEN Result("KeyError", NoResponse, fac, << >>)
    ELSE IF req.dNs = "Alexa.PowerController"
    THEN power_controller(req, fac, uuid)
    ELSE IF req.dNs = "Alexa.ThermostatController"
    THEN thermostat_controller(req, fac, sensor, uuid)
    ELSE IF req.dNs = "Alexa"
    THEN report_state(req, fac, sensor, uuid)
    ELSE IF req.dNs = "Alexa.Authorization"
    THEN accept_grant(req, fac, uuid)
    ELSE \* falls off the end of the function
         Result("None", NoResponse, fac, << >>)

\* --------------------------------------------------------- lambda_handler

\* Lines 80-92: which handler the request is sent to ("none": the lookup
\* that picks the handler raised KeyError).
\* Bug variant: the test is for the legacy version, v3 being the default.
routed_v3_by_default(req) ==
    IF get_directive_version(req) = "2"
    THEN IF req.hNs = Absent THEN "none"
         ELSE IF req.hNs = "Alexa.ConnectedHome.Discovery" THEN "handle_discovery"
         ELSE "handle_non_discovery"
    ELSE IF req.dName = Absent THEN "none"
         ELSE IF req.dName = "Discover" THEN "handle_discovery_v3"
         ELSE "handle_non_discovery_v3"

routed(req) ==
    IF get_directive_version(req) = "3"
    THEN IF req.dName = Absent THEN "none"
         ELSE IF req.dName = "Discover" THEN "handle_discovery_v3"
         ELSE "handle_non_discovery_v3"
    ELSE IF req.hNs = Absent THEN "none"
         ELSE IF req.hNs = "Alexa.ConnectedHome.Discovery" THEN "handle_discovery"
         ELSE "handle_non_discovery"

handled(req, cat, fac, sensor, uuid) ==
    LET r == routed(req)
    IN  IF r = "handle_discovery_v3" THEN handle_discovery_v3(cat, fac, uuid)
        ELSE IF r = "handle_non_discovery_v3"
        THEN handle_non_discovery_v3(req, fac, sensor, uuid)
        ELSE IF r = "handle_discovery" THEN handle_discovery(cat, fac, uuid)
        ELSE IF r = "handle_non_discovery"
        THEN handle_non_discovery(req, fac, uuid)
        ELSE Result("KeyError", NoResponse, fac, << >>)

\* --------------------------------------------------------------- requests

Req(dPv, dNs, dName, dTok, dEp, pKind, pNum, pStr, hPv, hNs, hName) ==
    [dPv |-> dPv, dNs |-> dNs, dName |-> dName, dTok |-> dTok, dEp |-> dEp,
     pKind |-> pKind, pNum |-> pNum, pStr |-> pStr,
     hPv |-> hPv, hNs |-> hNs, hName |-> hName]

NoPayload == << "none", 0, "" >>

\* The payloads sent with a directive of the given name (and none at all).
Payloads(name) ==
    {NoPayload} \cup
    (IF name = "SetTargetTemperature"
     THEN {<< "targetSetpoint", t, "" >> : t \in Temps}
     ELSE IF name = "AdjustTargetTemperature"
     THEN {<< "targetSetpointDelta", d, "" >> : d \in Deltas}
     ELSE IF name = "SetThermostatMode"
     THEN {<< "thermostatMode", 0, m >> : m \in {"HEAT", "COOL", "AUTO"}}
     ELSE IF name = "AcceptGrant"
     THEN {<< "grant", 0, "auth-code" >>}
     ELSE {})

\* (namespace, name) of directive.header: the v3 table, pairs outside it,
\* and headers with a key missing.
V3Pairs ==
    { << "Alexa.PowerController", "TurnOn" >>,
      << "Alexa.PowerController", "TurnOff" >>,
      << "Alexa.PowerController", "Toggle" >>,
      << "Alexa.ThermostatController", "SetTargetTemperature" >>,
      << "Alexa.ThermostatController", "AdjustTargetTemperature" >>,
      << "Alexa.ThermostatController", "SetThermostatMode" >>,
      << "Alexa.ThermostatController", "ResumeSchedule" >>,
      << "Alexa", "ReportState" >>,
      << "Alexa", "ChangeReport" >>,
      << "Alexa.Authorization", "AcceptGrant" >>,
      << "Alexa.Authorization", "RevokeGrant" >>,
      << "Alexa.Discovery", "Discover" >>,
      << "Alexa.BrightnessController", "SetBrightness" >>,
      << Absent, "TurnOn" >>,
      << "Alexa.PowerController", Absent >> }

\* (correlationToken, endpointId) of a v3 directive.
TokenEndpoints ==
    { << "tok-1", "endpoint-004" >>, << "tok-2", "endpoint-004" >>,
      << Absent, Absent >> }

\* v3 shape: only directive.header carries a payloadVersion, and it is "3".
V3Requests ==
    { Req("3", p[1], p[2], te[1], te[2], pl[1], pl[2], pl[3],
          Absent, Absent, Absent) :
        <<p, te, pl>> \in
          { <<p, te, pl>> \in V3Pairs \X TokenEndpoints \X
                UNION {Payloads(q[2]) : q \in V3Pairs} :
              pl \in Payloads(p[2]) } }

\* (namespace, name) of the top-level header of a v2 request.
V2Pairs ==
    {"Alexa.ConnectedHome.Discovery", "Alexa.ConnectedHome.Control",
     "Alexa.ConnectedHome.Query", Absent}
    \X {"DiscoverAppliancesRequest", "TurnOnRequest", "TurnOffRequest",
        "SetTargetTemperatureRequest", Absent}

\* v2 shape: only the top-level header carries a payloadVersion, and it is "2".
V2Requests ==
    { Req(Absent, Absent, Absent, Absent, Absent, "none", 0, "",
          "2", p[1], p[2]) : p \in V2Pairs }

\* Requests whose populated payloadVersion is not the one its location
\* normally holds, or that carry both header objects, or no version at all.
OddRequests ==
    { Req(pv[1], d[1], d[2], "tok-1", "endpoint-004", "none", 0, "",
          pv[2], h[1], h[2]) :
        <<pv, d, h>> \in
          (({Absent, "3", "2"} \X {Absent, "3", "2"}) \cup
           { << "-1", Absent >>, << Absent, "-1" >> }) \X
          { << Absent, Absent >>, << "Alexa.Discovery", "Discover" >> } \X
          { << Absent, Absent >>,
            << "Alexa.ConnectedHome.Control", "TurnOnRequest" >> } }

Requests == V3Requests \cup V2Requests \cup OddRequests

NoRequest ==
    Req(Absent, Absent, Absent, Absent, Absent, "none", 0, "",
        Absent, Absent, Absent)

\* ------------------------------------------------------------------ Spec

\* Appliances in v2 syntax: the shipped one, and others like it.
ModelNames ==
    {"Smart Thermostat", "Smart Switch", "smart thermostat", "Smart Light"}
Appliances ==
    { [SAMPLE_APPLIANCES[1] EXCEPT !.modelName = m, !.applianceId = i] :
        m \in ModelNames, i \in {"endpoint-004", "endpoint-001"} }

Facades == [power : Powers, temperature : Temps, mode : Modes]
SensorReadings == {0, MaxTemp}
IdleProcs == [p \in Procs |-> "idle"]

Init ==
    /\ ac_remote \in Facades
    /\ env_monitor \in SensorReadings
    /\ catalog = SAMPLE_APPLIANCES
    /\ request = NoRequest
    /\ before = ac_remote
    /\ version = Absent
    /\ route = "none"
    /\ outcome = "init"
    /\ response = NoResponse
    /\ calls = << >>
    /\ projected = [a \in Appliances |-> {}]
    /\ pc = IdleProcs
    /\ delta = [p \in Procs |-> 0]
    /\ read = [p \in Procs |-> 0]
    /\ start = 0
    /\ overlapped = FALSE

\* One invocation of lambda_handler, start to finish.
lambda_handler(req, uuid) ==
    \E r \in {handled(req, catalog, ac_remote, env_monitor, uuid)} :
        /\ r.fac.temperature \in Temps    \* keeps the target within the bound
        /\ request' = req
        /\ before' = ac_remote
        /\ version' = get_directive_version(req)
        /\ route' = routed(req)
        /\ outcome' = r.outcome
        /\ response' = r.response
        /\ calls' = r.calls
        /\ ac_remote' = r.fac
        /\ UNCHANGED <<env_monitor, catalog, projected, pc, delta, read,
                       start, overlapped>>

\* The environment sensor's stored reading changes.
SensorReading(t) ==
    /\ t # env_monitor
    /\ env_monitor' = t
    /\ UNCHANGED <<ac_remote, catalog, request, before, version, route,
                   outcome, response, calls, projected, pc, delta, read,
                   start, overlapped>>

Next ==
    \/ \E req \in Requests, uuid \in Uuids : lambda_handler(req, uuid)
    \/ \E t \in SensorReadings : SensorReading(t)

Spec == Init /\ [][Next]_vars

\* ----------------------------------------------------------- SpecProject
\* The endpoint projection applied to appliances, again and again.

ProjectAppliance(appliance) ==
    /\ projected' = [projected EXCEPT ![appliance] =
                         @ \cup {get_endpoint_from_v2_appliance(appliance)}]
    /\ UNCHANGED <<ac_remote, env_monitor, catalog, request, before, version,
                   route, outcome, response, calls, pc, delta, read, start,
                   overlapped>>

NextProject == \E appliance \in Appliances : ProjectAppliance(appliance)

SpecProject == Init /\ [][NextProject]_vars

\* -------------------------------------------------------------- SpecConc
\* Two invocations of lambda_handler running at once in one process, each
\* handling a v3 AdjustTargetTemperature directive against the one AcRemote.
\* An invocation is split at its calls to AcRemote (lines 233, 234, 263).

AdjustRequest(p) ==
    Req("3", "Alexa.ThermostatController", "AdjustTargetTemperature",
        IF p = 1 THEN "tok-1" ELSE "tok-2", "endpoint-004",
        "targetSetpointDelta", delta[p], "", Absent, Absent, Absent)

InitConc ==
    /\ ac_remote \in Facades
    /\ env_monitor \in SensorReadings
    /\ catalog = SAMPLE_APPLIANCES
    /\ request = NoRequest
    /\ before = ac_remote
    /\ version = Absent
    /\ route = "none"
    /\ outcome = "init"
    /\ response = NoResponse
    /\ calls = << >>
    /\ projected = [a \in Appliances |-> {}]
    /\ pc = IdleProcs
    /\ delta \in [Procs -> Deltas]
    /\ read = [p \in Procs |-> 0]
    /\ start = ac_remote.temperature
    /\ overlapped = FALSE

\* lambda_handler is entered and routes to handle_non_discovery_v3.
Begin(p) ==
    /\ pc[p] = "idle"
    /\ routed(AdjustRequest(p)) = "handle_non_discovery_v3"
    /\ pc' = [pc EXCEPT ![p] = "read"]
    /\ overlapped' = (overlapped \/ \E q \in Procs \ {p} :
                                        pc[q] \notin {"idle", "done"})
    /\ UNCHANGED <<ac_remote, env_monitor, catalog, request, before, version,
                   route, outcome, response, calls, projected, delta, read,
                   start>>

\* Line 233: ac_remote.get_temperature().
ReadTarget(p) ==
    /\ pc[p] = "read"
    /\ read' = [read EXCEPT ![p] = get_temperature(ac_remote)]
    /\ pc' = [pc EXCEPT ![p] = "write"]
    /\ UNCHANGED <<ac_remote, env_monitor, catalog, request, before, version,
                   route, outcome, response, calls, projected, delta, start,
                   overlapped>>

\* Lines 233-234: the sum, and ac_remote.set_temperature(request_temperature).
WriteTarget(p) ==
    /\ pc[p] = "write"
    /\ ac_remote' = set_temperature(ac_remote,
                                    adjusted_target(read[p], delta[p]))
    /\ pc' = [pc EXCEPT ![p] = "respond"]
    /\ UNCHANGED <<env_monitor, catalog, request, before, version, route,
                   outcome, response, calls, projected, delta, read, start,
                   overlapped>>

\* Lines 244-290: the response is built from the AcRemote as it is now.
Respond(p, uuid) ==
    /\ pc[p] = "respond"
    /\ request' = AdjustRequest(p)
    /\ version' = get_directive_version(AdjustRequest(p))
    /\ route' = routed(AdjustRequest(p))
    /\ outcome' = "response"
    /\ response' = [event |-> EndpointEvent("Response", AdjustRequest(p), uuid),
                    context |-> [properties |->
                        thermostat_properties(ac_remote, env_monitor)]]
    /\ calls' = << "set_temperature" >>
    /\ pc' = [pc EXCEPT ![p] = "done"]
    /\ UNCHANGED <<ac_remote, env_monitor, catalog, before, projected, delta,
                   read, start, overlapped>>

NextConc ==
    \E p \in Procs :
        \/ Begin(p)
        \/ ReadTarget(p)
        \/ WriteTarget(p)
        \/ \E uuid \in Uuids : Respond(p, uuid)

SpecConc == InitConc /\ [][NextConc]_vars

\* ======================================================================
\* Properties
\* ======================================================================

Handled == outcome # "init"
V3NonDiscovery == Handled /\ route = "handle_non_discovery_v3"
PropertyNames(resp) ==
    [i \in 1..Len(resp.context.properties) |-> resp.context.properties[i].name]

\* The v3 and v2 dispatch tables of the design.
InV3Table(req) ==
    \/ req.dName = "Discover"
    \/ << req.dNs, req.dName >> \in
         { << "Alexa.PowerController", "TurnOn" >>,
           << "Alexa.PowerController", "TurnOff" >>,
           << "Alexa.ThermostatController", "SetTargetTemperature" >>,
           << "Alexa.ThermostatController", "AdjustTargetTemperature" >>,
           << "Alexa.ThermostatController", "SetThermostatMode" >>,
           << "Alexa", "ReportState" >>,
           << "Alexa.Authorization", "AcceptGrant" >> }
InV2Table(req) ==
    \/ req.hNs = "Alexa.ConnectedHome.Discovery"
    \/ /\ req.hNs = "Alexa.ConnectedHome.Control"
       /\ req.hName \in {"TurnOnRequest", "TurnOffRequest"}
Unmatched(req, ver) ==
    \/ ver = "3" /\ req.dNs # Absent /\ req.dName # Absent /\ ~InV3Table(req)
    \/ ver = "2" /\ req.hNs # Absent /\ req.hName # Absent /\ ~InV2Table(req)

\* C1: a directive of version "3" or "2" whose (namespace, name) pair is in
\* neither dispatch table ends in an explicit UnsupportedDirective error:
\* no response envelope, and no silent return of nothing.
C1_UnmatchedIsUnsupportedDirective ==
    (Handled /\ Unmatched(request, version))
        => outcome = "UnsupportedDirective"

ExactlyOnePopulated(req) == (req.dPv = Absent) # (req.hPv = Absent)
V2Handlers == {"handle_discovery", "handle_non_discovery"}
V3Handlers == {"handle_discovery_v3", "handle_non_discovery_v3"}

\* C2 as stated: with exactly one payloadVersion location populated, a
\* request with the field under directive.header never reaches the v2
\* handlers and one with the field in the top-level header never reaches
\* the v3 handlers, whatever value the field holds.
C2_NeverMisroutedAnyValue ==
    (Handled /\ ExactlyOnePopulated(request)) =>
        /\ request.dPv # Absent => route \notin V2Handlers
        /\ request.hPv # Absent => route \notin V3Handlers

\* C2 as amended: the same, for requests whose populated field holds a
\* value the handler routes by its location: "3" under directive.header,
\* anything but "3" in the top-level header.
C2_NeverMisroutedExpectedValue ==
    (Handled /\ ExactlyOnePopulated(request)) =>
        /\ request.dPv = "3" => route \notin V2Handlers
        /\ (request.hPv # Absent /\ request.hPv # "3")
               => route \notin V3Handlers

\* A v3 request that also carries a top-level header object (without a
\* payloadVersion) has been sent to a v3 handler.
C2_Witness ==
    /\ Handled /\ ExactlyOnePopulated(request)
    /\ request.dPv = "3" /\ request.hNs # Absent
    /\ route \in V3Handlers

IsSetTargetTemperature ==
    /\ V3NonDiscovery
    /\ request.dNs = "Alexa.ThermostatController"
    /\ request.dName = "SetTargetTemperature"

\* C4: after a v3 SetTargetTemperature directive with targetSetpoint.value
\* = v has been answered, get_temperature() returns v and the response
\* reports exactly [thermostatMode, targetSetpoint, temperature], the first
\* two holding the AcRemote's mode and target after the change.
C4_SetTargetTemperatureSnapshot ==
    (IsSetTargetTemperature /\ outcome = "response") =>
        /\ get_temperature(ac_remote) = request.pNum
        /\ PropertyNames(response) =
               << "thermostatMode", "targetSetpoint", "temperature" >>
        /\ response.context.properties[1].value = get_mode(ac_remote)
        /\ response.context.properties[2].value.value
               = get_temperature(ac_remote)
        /\ response.context.properties[2].value.value = request.pNum

\* A SetTargetTemperature that changed the target has been answered.
C4_Witness ==
    /\ IsSetTargetTemperature /\ outcome = "response"
    /\ request.pNum # before.temperature
    /\ ac_remote.temperature = request.pNum

IsPowerController ==
    /\ V3NonDiscovery
    /\ request.dNs = "Alexa.PowerController"
    /\ request.dTok # Absent

\* C5: a v3 Alexa.PowerController directive with correlationToken t calls
\* set_power_on for TurnOn and set_power_off for TurnOff, answers with the
\* same token and with the single property powerState (ON for TurnOn, OFF
\* for TurnOff); and set_power_off is called only for the name TurnOff.
C5_PowerControllerOnOff ==
    IsPowerController =>
        /\ "set_power_off" \in {calls[i] : i \in 1..Len(calls)}
               => request.dName = "TurnOff"
        /\ (outcome = "response" /\ request.dName \in {"TurnOn", "TurnOff"}) =>
               /\ calls = << IF request.dName = "TurnOn" THEN "set_power_on"
                             ELSE "set_power_off" >>
               /\ response.event.header.correlationToken = request.dTok
               /\ Len(response.context.properties) = 1
               /\ response.context.properties[1].namespace
                      = "Alexa.PowerController"
               /\ response.context.properties[1].name = "powerState"
               /\ response.context.properties[1].value
                      = (IF request.dName = "TurnOn" THEN "ON" ELSE "OFF")

ThermostatInterfaces ==
    << "Alexa.ThermostatController", "Alexa.PowerController",
       "Alexa.TemperatureSensor", "Alexa.EndpointHealth", "Alexa" >>
OtherInterfaces ==
    << "Alexa.PowerController", "Alexa.EndpointHealth", "Alexa" >>
Interfaces(endpoint) ==
    [i \in 1..Len(endpoint.capabilities) |-> endpoint.capabilities[i].interface]

\* C6: every projected endpoint has, for modelName "Smart Thermostat",
\* the 5 capabilities [ThermostatController, PowerController,
\* TemperatureSensor, EndpointHealth, base] and displayCategories
\* [THERMOSTAT], and for any other modelName the 3 capabilities
\* [PowerController, EndpointHealth, base] and [OTHER]; and every
\* projection of one appliance gives the same endpoint.
C6_ProjectedCapabilities ==
    \A a \in Appliances :
        /\ Cardinality(projected[a]) <= 1
        /\ \A e \in projected[a] :
             /\ e.endpointId = a.applianceId
             /\ Interfaces(e) =
                    (IF a.modelName = "Smart Thermostat"
                     THEN ThermostatInterfaces ELSE OtherInterfaces)
             /\ e.displayCategories =
                    (IF a.modelName = "Smart Thermostat"
                     THEN << "THERMOSTAT" >> ELSE << "OTHER" >>)
             /\ "properties" \notin DOMAIN e.capabilities[Len(e.capabilities)]

\* Every appliance, thermostat or not, has been projected.
C6_Witness == \A a \in Appliances : projected[a] # {}

IsReportState ==
    V3NonDiscovery /\ request.dNs = "Alexa" /\ request.dName = "ReportState"

\* C7: a v3 Alexa/ReportState directive changes nothing on the AcRemote
\* and calls no set_* method; its response is a StateReport with the 5
\* properties [thermostatMode, targetSetpoint, powerState, temperature,
\* connectivity], the first three holding the AcRemote's current values.
C7_ReportStatePureRead ==
    IsReportState =>
        /\ ac_remote = before
        /\ calls = << >>
        /\ outcome = "response" =>
             /\ response.event.header.name = "StateReport"
             /\ PropertyNames(response) =
                    << "thermostatMode", "targetSetpoint", "powerState",
                       "temperature", "connectivity" >>
             /\ response.context.properties[1].value = ac_remote.mode
             /\ response.context.properties[2].value.value
                    = ac_remote.temperature
             /\ response.context.properties[3].value = ac_remote.power

\* A ReportState directive has been answered.
C7_Witness == IsReportState /\ outcome = "response"

IsSetThermostatMode ==
    /\ V3NonDiscovery
    /\ request.dNs = "Alexa.ThermostatController"
    /\ request.dName = "SetThermostatMode"
    /\ request.pKind = "thermostatMode"

\* C8: a v3 SetThermostatMode directive sets the mode to HEAT for the
\* payload value HEAT and to COOL for COOL, changes nothing for any other
\* value, and never changes the target temperature or the power state.
C8_SetThermostatModeFrame ==
    IsSetThermostatMode =>
        /\ request.pStr = "HEAT" => ac_remote.mode = "HEAT"
        /\ request.pStr = "COOL" => ac_remote.mode = "COOL"
        /\ request.pStr \notin {"HEAT", "COOL"} => ac_remote = before
        /\ ac_remote.temperature = before.temperature
        /\ ac_remote.power = before.power

\* A SetThermostatMode with a value that is neither HEAT nor COOL has been
\* handled while the mode was HEAT.
C8_Witness ==
    /\ IsSetThermostatMode
    /\ request.pStr \notin {"HEAT", "COOL"}
    /\ before.mode = "HEAT"

\* C9: the catalog stays the shipped one, and a v3 Discover directive is
\* answered without a context block and with one endpoint per catalog
\* appliance, in catalog order, each with the appliance's id: here the one
\* endpoint "endpoint-004" with 5 capabilities.
C9_DiscoverOverFixedCatalog ==
    /\ catalog = SAMPLE_APPLIANCES
    /\ (Handled /\ route = "handle_discovery_v3") =>
         /\ outcome = "response"
         /\ "context" \notin DOMAIN response
         /\ LET endpoints == response.event.payload.endpoints
            IN  /\ Len(endpoints) = Len(catalog)
                /\ \A i \in 1..Len(endpoints) :
                       endpoints[i].endpointId = catalog[i].applianceId
                /\ Len(endpoints) = 1
                /\ endpoints[1].endpointId = "endpoint-004"
                /\ Len(endpoints[1].capabilities) = 5

\* A Discover directive has been answered with the shipped endpoint.
C9_Witness ==
    /\ Handled /\ route = "handle_discovery_v3" /\ outcome = "response"
    /\ Len(response.event.payload.endpoints) = 1

AllDone == \A p \in Procs : pc[p] = "done"
SumOfDeltas == start + delta[1] + delta[2]

\* C10: two AdjustTargetTemperature directives with deltas d1 and d2 from
\* target t leave t + d1 + d2 when handled one after the other; handled at
\* once they leave t + d1 + d2 or one update is lost (t + d1 or t + d2).
C10_AdjustLostUpdate ==
    AllDone =>
        \/ ac_remote.temperature = SumOfDeltas
        \/ /\ overlapped
           /\ ac_remote.temperature \in {start + delta[1], start + delta[2]}

\* Both directives were handled at once and one update was lost.
C10_Witness ==
    /\ AllDone /\ overlapped
    /\ ac_remote.temperature # SumOfDeltas

====
